---- MODULE Spec2Model ----
(***************************************************************************)
(* ezgame: archetype based entity-component storage.                       *)
(*                                                                         *)
(* The model follows src/src/scene.rs (Scene), src/src/archetype.rs        *)
(* (Archetype, ArchetypeChunk, ArchetypeMeta, ArchetypeMap),               *)
(* src/src/entity.rs (Entity, EntityMap, EntityLocation),                  *)
(* src/src/component.rs (ComponentSet for tuples) and src/src/ty.rs        *)
(* (TypeMeta).  Indices are 0-based as in the code; TLA+ sequences are     *)
(* 1-based, so element i of a Vec is seq[i + 1].                           *)
(***************************************************************************)
EXTENDS Integers, Sequences, FiniteSets, TLC

VARIABLES
    cursor,     \* ENT_CURSOR, the process-wide next entity id
    entities,   \* Scene.entities : EntityMap (bucket key -> EntityMapChunk)
    arch,       \* Scene.archetypes.arch : Vec<Archetype>
    map,        \* Scene.archetypes.map : HashMap<Vec<TypeId>, usize>
    panicked,   \* a call on the Scene has panicked; the Scene is not used again
    last,       \* the last call made on the Scene, its arguments and its result
    calls,      \* the number of calls made on the Scene
    drops,      \* component instance -> number of destructor calls made on it
    destroyed,  \* the Scene has been dropped
    threads,    \* thread -> its position in Entity::next and the ranges it got
    NEXT_ID,    \* compiler process -> the static NEXT_ID of derive_cmp loaded in it
    impls       \* crate -> the `impl Component` blocks derive_cmp generated for it

vars == <<cursor, entities, arch, map, panicked, last, calls, drops, destroyed,
          threads, NEXT_ID, impls>>

-----------------------------------------------------------------------------
(* Bounds of the model                                                      *)

\* entity ids handed out by ENT_CURSOR in one behaviour
MaxEnt == 2
\* calls made on the Scene in one behaviour
MaxCalls == 4
\* component values
Vals == {1, 2}
Ents == 0..(MaxEnt - 1)

-----------------------------------------------------------------------------
(* Program constants                                                        *)

CHUNK_SIZE == 16000
SIZE == 16
SizeOfEntId == 8
USIZE_MAX == 2147483647
MaxArity == 26

-----------------------------------------------------------------------------
(* Option<T>: None is the empty sequence, Some(v) the sequence <<v>>.  A    *)
(* call that panics instead of returning yields Panic.                      *)

None == << >>
Some(v) == << v >>
Panic == << 0, 0 >>

-----------------------------------------------------------------------------
(* Component types.  TypeIds 1 and 2 stand for two large components (so     *)
(* that chunks hold only a few entities), 3..26 for small ones; type 2 has  *)
(* the larger alignment.                                                    *)

TypeIds == 1..MaxArity

TypeMeta_of(t) ==
    [ id    |-> t,
      size  |-> IF t = 1 THEN 5000 ELSE IF t = 2 THEN 2000 ELSE 4,
      align |-> IF t = 2 THEN 8 ELSE 4 ]

\* Ord for TypeMeta: alignment descending, then type id ascending
TypeMeta_cmp(a, b) ==
    IF a.align > b.align THEN "Less"
    ELSE IF a.align < b.align THEN "Greater"
    ELSE IF a.id < b.id THEN "Less"
    ELSE IF a.id > b.id THEN "Greater"
    ELSE "Equal"

\* Ord for TypeId
TypeId_cmp(a, b) ==
    IF a < b THEN "Less" ELSE IF a > b THEN "Greater" ELSE "Equal"

\* Vec<TypeMeta>::sort / sort_unstable: element i goes to the position that
\* counts the elements sorting before it (no two TypeMeta of a Vec are Equal
\* unless they are the same type, and then their order shows nowhere)
MetaRank(s, i) ==
    Cardinality({ j \in DOMAIN s :
                    \/ TypeMeta_cmp(s[j], s[i]) = "Less"
                    \/ TypeMeta_cmp(s[j], s[i]) = "Equal" /\ j < i })

SortMetas(s) ==
    LET at == [i \in DOMAIN s |-> MetaRank(s, i)]
    IN  [k \in DOMAIN s |-> s[CHOOSE i \in DOMAIN s : at[i] = k - 1]]

\* Vec<TypeId>::sort
IdRank(s, i) ==
    Cardinality({ j \in DOMAIN s :
                    \/ TypeId_cmp(s[j], s[i]) = "Less"
                    \/ TypeId_cmp(s[j], s[i]) = "Equal" /\ j < i })

SortIds(s) ==
    LET at == [i \in DOMAIN s |-> IdRank(s, i)]
    IN  [k \in DOMAIN s |-> s[CHOOSE i \in DOMAIN s : at[i] = k - 1]]

\* a HashMap's keys collected into a Vec.  The iteration order of the map is
\* not specified; the callers sort the Vec, so one order stands for all
SeqOfSet(S) ==
    [k \in 1..Cardinality(S) |->
        CHOOSE x \in S : Cardinality({ y \in S : y < x }) = k - 1]

-----------------------------------------------------------------------------
(* Component tuples.  A tuple is a sequence of [ty, val] elements in the    *)
(* order the caller wrote them.                                             *)

Elem(t, v) == [ty |-> t, val |-> v]

\* a cell of a component column: the value and the instance it is a bitwise
\* copy of.  Instance 0 is memory no component was ever written to
Cell(v, id) == [val |-> v, id |-> id]

\* the instance made from field n of a tuple, when made is the highest
\* instance a cell or a destructor call of the Scene names
NewId(made, n) == made + n + 1

\* the component instance a cell of column t holds
Instance(t, cell) == [ty |-> t, id |-> cell.id]

\* the destructor calls d after those of the sequence s of instances
Tally(d, s) ==
    LET hit == { s[k] : k \in DOMAIN s }
    IN  [i \in DOMAIN d \cup hit |->
            (IF i \in DOMAIN d THEN d[i] ELSE 0)
            + Cardinality({ k \in DOMAIN s : s[k] = i })]

\* the 26-element tuple (A, B, ..., Z): element i has type i
Tuple26 == [i \in 1..MaxArity |-> Elem(i, 1)]

\* the tuples the model passes to spawn and add: tuples over the two large
\* types; the pair is written against the order ComponentSet::ty sorts it to
Tuples ==
    { << >> }
    \cup { << Elem(1, 1) >>, << Elem(1, 2) >>, << Elem(2, 1) >> }
    \cup { << Elem(1, 1), Elem(2, 2) >> }

\* the tuples of the specification that exercises the widest tuple
WideTuples == { << >>, Tuple26 }

TupleTypes(cmp) == { cmp[i].ty : i \in DOMAIN cmp }

\* ComponentSet::ty without `ty.sort_unstable()`
ComponentSet_ty_Unsorted(cmp) ==
    [i \in DOMAIN cmp |-> TypeMeta_of(cmp[i].ty)]

\* ComponentSet::ty: the tuple's types, sorted by TypeMeta's Ord
ComponentSet_ty(cmp) ==
    SortMetas([i \in DOMAIN cmp |-> TypeMeta_of(cmp[i].ty)])

\* ComponentSet::meta: the sorted type descriptors of the tuple
ComponentSet_meta(cmp) == ComponentSet_ty(cmp)

\* the registry key of a tuple type: the type ids in ComponentSet::ty order
ComponentSet_key(cmp) ==
    LET ty == ComponentSet_ty(cmp) IN [i \in DOMAIN cmp |-> ty[i].id]

\* the tuple fields impl_component_set! names for an arity (0-based)
TupleFields(n) ==
    IF n = 26 THEN (0..23) \cup {25} ELSE 0..(n - 1)

-----------------------------------------------------------------------------
(* EntityLocation and EntityMap                                             *)

EntityLocation_new(a, c, i) == [archetype |-> a, chunk |-> c, index |-> i]

\* a sentinel of all zeros in place of EntityLocation::NULL
NULL_Zero == [archetype |-> 0, chunk |-> 0, index |-> 0]

NULL == [archetype |-> USIZE_MAX, chunk |-> 0, index |-> 0]

EntityMapChunk_new == [map |-> [i \in 0..(SIZE - 1) |-> NULL], len |-> 0]

EntityMap_get(m, e) ==
    LET e_ind == e % SIZE
        c_ind == e - e_ind
    IN  IF c_ind \in DOMAIN m THEN m[c_ind].map[e_ind] ELSE NULL

EntityMap_contains(m, e) == EntityMap_get(m, e) # NULL

\* EntityMap::insert that always takes the branch of the missing bucket
EntityMap_insert_NewBucket(m, e, loc) ==
    LET e_ind == e % SIZE
        c_ind == e - e_ind
    IN  [k \in DOMAIN m \cup {c_ind} |->
           IF k = c_ind
           THEN [map |-> [EntityMapChunk_new.map EXCEPT ![e_ind] = loc], len |-> 1]
           ELSE m[k]]

\* EntityMap::insert after its debug_assert_ne!(loc, NULL), which panics in a
\* build with debug assertions and is absent from one without
EntityMap_insert(m, e, loc) ==
    LET e_ind == e % SIZE
        c_ind == e - e_ind
    IN  IF c_ind \in DOMAIN m
        THEN LET chunk == m[c_ind]
                 len   == IF chunk.map[e_ind] = NULL THEN chunk.len + 1 ELSE chunk.len
             IN  [m EXCEPT ![c_ind] = [map |-> [chunk.map EXCEPT ![e_ind] = loc],
                                       len |-> len]]
        ELSE [k \in DOMAIN m \cup {c_ind} |->
                IF k = c_ind
                THEN [map |-> [EntityMapChunk_new.map EXCEPT ![e_ind] = loc], len |-> 1]
                ELSE m[k]]

\* EntityMap::remove without `chunk.map[e_ind] = EntityLocation::NULL`
EntityMap_remove_KeepSlot(m, e) ==
    LET e_ind == e % SIZE
        c_ind == e - e_ind
    IN  IF c_ind \in DOMAIN m
        THEN LET chunk == m[c_ind]
                 len   == IF chunk.map[e_ind] # NULL THEN chunk.len - 1 ELSE chunk.len
             IN  IF len = 0
                 THEN [k \in DOMAIN m \ {c_ind} |-> m[k]]
                 ELSE [m EXCEPT ![c_ind] = [map |-> chunk.map, len |-> len]]
        ELSE m

EntityMap_remove(m, e) ==
    LET e_ind == e % SIZE
        c_ind == e - e_ind
    IN  IF c_ind \in DOMAIN m
        THEN LET chunk == m[c_ind]
                 len   == IF chunk.map[e_ind] # NULL THEN chunk.len - 1 ELSE chunk.len
                 after == [map |-> [chunk.map EXCEPT ![e_ind] = NULL], len |-> len]
             IN  IF len = 0
                 THEN [k \in DOMAIN m \ {c_ind} |-> m[k]]
                 ELSE [m EXCEPT ![c_ind] = after]
        ELSE m

-----------------------------------------------------------------------------
(* Archetype, ArchetypeChunk, ArchetypeMeta                                 *)
(*                                                                          *)
(* A chunk's buffer is modelled up to its high-water mark: ents and every   *)
(* column data[t] have one cell for every slot that was ever handed out,    *)
(* so cells at or after len keep the bytes last stored in them, as the      *)
(* buffer of the code does.                                                 *)

RECURSIVE SumSizes(_)
SumSizes(ty) ==
    IF ty = << >> THEN 0 ELSE Head(ty).size + SumSizes(Tail(ty))

\* the `for t in ty` loop of Archetype::new: `done` is the (alloc, meta) pair
RECURSIVE LayoutLoop(_, _, _)
LayoutLoop(ty, max, done) ==
    IF ty = << >> THEN done
    ELSE LET t      == Head(ty)
             padded == done.alloc + ((t.align - (done.alloc % t.align)) % t.align)
             meta   == [k \in DOMAIN done.meta \cup {t.id} |->
                          IF k = t.id THEN [ty |-> t, offset |-> padded]
                          ELSE done.meta[k]]
         IN  LayoutLoop(Tail(ty), max,
                        [alloc |-> padded + t.size * max, meta |-> meta])

\* Archetype::new with the id column taken as 4 bytes an entity
Archetype_new_ShortIdColumn(id, ty) ==
    LET size == SizeOfEntId + SumSizes(ty)
        max  == CHUNK_SIZE \div size
        done == LayoutLoop(ty, max, [alloc |-> 4 * max, meta |-> << >>])
    IN  [ meta   |-> [ id     |-> id,
                       cmp    |-> done.meta,
                       max    |-> max,
                       layout |-> [size |-> done.alloc, align |-> SizeOfEntId] ],
          chunks |-> << >>,
          free   |-> {} ]

\* Archetype::new with one byte counted for the entity id
Archetype_new_NoIdColumn(id, ty) ==
    LET size == SumSizes(ty) + 1
        max  == CHUNK_SIZE \div size
        done == LayoutLoop(ty, max, [alloc |-> SizeOfEntId * max, meta |-> << >>])
    IN  [ meta   |-> [ id     |-> id,
                       cmp    |-> done.meta,
                       max    |-> max,
                       layout |-> [size |-> done.alloc, align |-> SizeOfEntId] ],
          chunks |-> << >>,
          free   |-> {} ]

Archetype_new(id, ty) ==
    LET size == SizeOfEntId + SumSizes(ty)
        max  == CHUNK_SIZE \div size
        done == LayoutLoop(ty, max, [alloc |-> SizeOfEntId * max, meta |-> << >>])
    IN  [ meta   |-> [ id     |-> id,
                       cmp    |-> done.meta,
                       max    |-> max,
                       layout |-> [size |-> done.alloc, align |-> SizeOfEntId] ],
          chunks |-> << >>,
          free   |-> {} ]

\* ArchetypeMeta::component_types: the keys of meta.cmp
component_types(a) == DOMAIN a.meta.cmp

\* ArchetypeMeta::contains_dyn
contains_dyn(a, t) == t \in DOMAIN a.meta.cmp

\* Archetype::new_chunk: the chunk appended to the archetype
new_chunk(a) ==
    [ len  |-> 0,
      ents |-> << >>,
      data |-> [t \in DOMAIN a.meta.cmp |-> << >>] ]

\* the chunk indices `self.free.iter().next()...unwrap_or_else(new_chunk)` can
\* yield: any element of the free set, or the index of a new chunk
FreeChoices(a) ==
    IF a.free = {} THEN { Len(a.chunks) } ELSE a.free

\* store v in cell i (0-based) of a buffer region; a cell one past the
\* high-water mark is added
Store(region, i, v) ==
    IF i < Len(region) THEN [region EXCEPT ![i + 1] = v] ELSE Append(region, v)

\* Archetype::insert with the chunk picked from FreeChoices; g is what the
\* component cells of a never-used slot hold (uninitialized memory)
Archetype_insert(a, e, chunk, g) ==
    LET fresh   == chunk = Len(a.chunks)
        chunks1 == IF fresh THEN Append(a.chunks, new_chunk(a)) ELSE a.chunks
        free1   == IF fresh THEN a.free \cup {chunk} ELSE a.free
        c       == chunks1[chunk + 1]
        index   == c.len
        len     == c.len + 1
        free2   == IF len = a.meta.max THEN free1 \ {chunk} ELSE free1
        c2      == [ len  |-> len,
                     ents |-> Store(c.ents, index, e),
                     data |-> [t \in DOMAIN c.data |->
                                 IF index < Len(c.data[t]) THEN c.data[t]
                                 ELSE Append(c.data[t], Cell(g, 0))] ]
    IN  [ arch |-> [a EXCEPT !.chunks = [chunks1 EXCEPT ![chunk + 1] = c2],
                             !.free = free2],
          loc  |-> EntityLocation_new(a.meta.id, chunk, index) ]

\* Archetype::remove without the copy_nonoverlapping of the components
Archetype_remove_IdOnly(a, loc, drop) ==
    LET c    == a.chunks[loc.chunk + 1]
        swap == loc.index # c.len - 1
        tys  == SeqOfSet(DOMAIN c.data)
        c2   == IF swap
                THEN [ len  |-> c.len - 1,
                       ents |-> [c.ents EXCEPT ![loc.index + 1] = c.ents[c.len]],
                       data |-> c.data ]
                ELSE [c EXCEPT !.len = c.len - 1]
    IN  IF swap /\ (c.len = 0 \/ loc.index >= c.len)
        THEN [arch |-> a, moved |-> None, drops |-> << >>, panic |-> TRUE]
        ELSE [ arch  |-> [a EXCEPT !.chunks = [a.chunks EXCEPT ![loc.chunk + 1] = c2],
                                   !.free = a.free \cup {loc.chunk}],
               moved |-> IF swap THEN Some(c.ents[c.len]) ELSE None,
               drops |-> IF swap /\ drop
                         THEN [k \in DOMAIN tys |->
                                 Instance(tys[k], c.data[tys[k]][loc.index + 1])]
                         ELSE << >>,
               panic |-> FALSE ]

\* Archetype::remove without `self.free.insert(loc.chunk())`
Archetype_remove_NoFree(a, loc, drop) ==
    LET c    == a.chunks[loc.chunk + 1]
        swap == loc.index # c.len - 1
        tys  == SeqOfSet(DOMAIN c.data)
        c2   == IF swap
                THEN [ len  |-> c.len - 1,
                       ents |-> [c.ents EXCEPT ![loc.index + 1] = c.ents[c.len]],
                       data |-> [t \in DOMAIN c.data |->
                                   [c.data[t] EXCEPT ![loc.index + 1] = c.data[t][c.len]]] ]
                ELSE [c EXCEPT !.len = c.len - 1]
    IN  IF swap /\ (c.len = 0 \/ loc.index >= c.len)
        THEN [arch |-> a, moved |-> None, drops |-> << >>, panic |-> TRUE]
        ELSE [ arch  |-> [a EXCEPT !.chunks = [a.chunks EXCEPT ![loc.chunk + 1] = c2]],
               moved |-> IF swap THEN Some(c.ents[c.len]) ELSE None,
               drops |-> IF swap /\ drop
                         THEN [k \in DOMAIN tys |->
                                 Instance(tys[k], c.data[tys[k]][loc.index + 1])]
                         ELSE << >>,
               panic |-> FALSE ]

\* Archetype::remove; result: the archetype, the moved entity, the instances
\* `ty.drop(dst)` was called on, and whether the call panicked (then the
\* archetype is as at the call)
Archetype_remove(a, loc, drop) ==
    LET c == a.chunks[loc.chunk + 1]
    IN  IF loc.index # c.len - 1 /\ (c.len = 0 \/ loc.index >= c.len)
        THEN \* `chunk.len - 1` / `ent.last().unwrap()` on an empty chunk, or
             \* `ent[loc.index()] = last` outside the slice of len entries
             [arch |-> a, moved |-> None, drops |-> << >>, panic |-> TRUE]
        ELSE
        LET swap == loc.index # c.len - 1
            tys  == SeqOfSet(DOMAIN c.data)
            last_ent == c.ents[c.len]
            c2   == IF swap
                    THEN [ len  |-> c.len - 1,
                           ents |-> [c.ents EXCEPT ![loc.index + 1] = last_ent],
                           data |-> [t \in DOMAIN c.data |->
                                       [c.data[t] EXCEPT ![loc.index + 1] = c.data[t][c.len]]] ]
                    ELSE [c EXCEPT !.len = c.len - 1]
        IN  [ arch  |-> [a EXCEPT !.chunks = [a.chunks EXCEPT ![loc.chunk + 1] = c2],
                                  !.free = a.free \cup {loc.chunk}],
              moved |-> IF swap THEN Some(last_ent) ELSE None,
              drops |-> IF swap /\ drop
                        THEN [k \in DOMAIN tys |->
                                Instance(tys[k], c.data[tys[k]][loc.index + 1])]
                        ELSE << >>,
              panic |-> FALSE ]

\* Archetype::get / get_mut (typed): the component of type t at loc, through
\* the typed column view, which has len entries
Archetype_get(a, loc, t) ==
    IF ~contains_dyn(a, t) THEN None
    ELSE LET c == a.chunks[loc.chunk + 1]
         IN  IF loc.index >= c.len THEN Panic
             ELSE Some(c.data[t][loc.index + 1].val)

\* Archetype::get_dyn / get_mut_dyn: a raw pointer to the component of type t
\* at loc (no bounds check); here the value the pointer reads
Archetype_get_dyn(a, loc, t) ==
    IF ~contains_dyn(a, t) THEN None
    ELSE Some(a.chunks[loc.chunk + 1].data[t][loc.index + 1])

\* ArchetypeMeta::get_dyn answering None instead of `.expect(..)`
ArchetypeMeta_get_dyn_OrNone(a, t) ==
    IF t \in DOMAIN a.meta.cmp THEN Some(a.meta.cmp[t]) ELSE None

\* ArchetypeMeta::get_dyn / get: `self.cmp.get(&id).expect(..)`
ArchetypeMeta_get_dyn(a, t) ==
    IF t \in DOMAIN a.meta.cmp THEN Some(a.meta.cmp[t]) ELSE Panic

\* ArchetypeMeta::try_get_dyn / try_get: `self.cmp.get(&id)`
ArchetypeMeta_try_get_dyn(a, t) ==
    IF t \in DOMAIN a.meta.cmp THEN Some(a.meta.cmp[t]) ELSE None

\* ArchetypeChunk::components / components_mut / components_dyn /
\* components_mut_dyn of chunk c (0-based): the first len cells of the
\* column of t
ArchetypeChunk_components(a, c, t) ==
    IF ArchetypeMeta_get_dyn(a, t) = Panic THEN Panic
    ELSE IF ArchetypeMeta_get_dyn(a, t) = None THEN None
    ELSE Some(SubSeq(a.chunks[c + 1].data[t], 1, a.chunks[c + 1].len))

\* ArchetypeChunk::try_components and its _mut and _dyn flavours:
\* `let meta = self.meta.try_get::<T>()?;`
ArchetypeChunk_try_components(a, c, t) ==
    IF ArchetypeMeta_try_get_dyn(a, t) = None THEN None
    ELSE Some(SubSeq(a.chunks[c + 1].data[t], 1, a.chunks[c + 1].len))

\* Archetype::set: `self.chunks[loc.chunk()].components_mut::<T>()[loc.index()] = cmp`,
\* an assignment, which calls the destructor of what the cell held and stores
\* cmp (instance id).  Result: the archetype and the instances destroyed
Archetype_set(a, loc, t, v, id) ==
    [ arch  |-> [a EXCEPT !.chunks[loc.chunk + 1].data[t][loc.index + 1] = Cell(v, id)],
      drops |-> << Instance(t, a.chunks[loc.chunk + 1].data[t][loc.index + 1]) >> ]

\* a write through the pointer get_mut / get_mut_dyn returned
Archetype_write(a, loc, t, v) ==
    [a EXCEPT !.chunks[loc.chunk + 1].data[t][loc.index + 1].val = v]

\* ComponentSet::insert that stores no field
ComponentSet_insert_Nothing(cmp, a, loc, made) == [arch |-> a, drops |-> << >>]

\* ComponentSet::insert: one
\* `*arch.get_mut(loc).unwrap() = self.N` per field N the macro invocation
\* names, in that order.  Each assignment calls the destructor of what the
\* cell held and stores the field; a field the invocation does not name is
\* dropped with the tuple when the function returns.  Result: the archetype
\* and the instances destructors were called on
ComponentSet_insert(cmp, a, loc, made) ==
    LET fields   == TupleFields(Len(cmp))
        c        == a.chunks[loc.chunk + 1]
        writers(t) == { n \in fields : cmp[n + 1].ty = t }
        lastw(t) == CHOOSE n \in writers(t) : \A k \in writers(t) : k <= n
        before(n) == { k \in writers(cmp[n + 1].ty) : k < n }
        prev(n)  == CHOOSE k \in before(n) : \A m \in before(n) : m <= k
        held(n)  == IF before(n) = {}
                    THEN Instance(cmp[n + 1].ty, c.data[cmp[n + 1].ty][loc.index + 1])
                    ELSE [ty |-> cmp[n + 1].ty, id |-> NewId(made, prev(n))]
        order    == SeqOfSet(fields)
        unnamed  == SeqOfSet((0..(Len(cmp) - 1)) \ fields)
    IN  [ arch  |-> [a EXCEPT !.chunks[loc.chunk + 1].data =
                       [t \in DOMAIN c.data |->
                          IF writers(t) = {} THEN c.data[t]
                          ELSE [c.data[t] EXCEPT ![loc.index + 1] =
                                  Cell(cmp[lastw(t) + 1].val, NewId(made, lastw(t)))]]],
          drops |-> [k \in DOMAIN order |-> held(order[k])]
                    \o [k \in DOMAIN unnamed |->
                          [ty |-> cmp[unnamed[k] + 1].ty, id |-> NewId(made, unnamed[k])]] ]

-----------------------------------------------------------------------------
(* ArchetypeMap                                                             *)

\* get_or_insert_dyn without the lookup: every call builds an archetype
ArchetypeMap_get_or_insert_dyn_Always(ar, mp, ty, meta) ==
    LET id == Len(ar)
    IN  [ arch |-> Append(ar, Archetype_new(id, meta)),
          map  |-> [k \in DOMAIN mp \cup {ty} |-> IF k = ty THEN id ELSE mp[k]],
          id   |-> id ]

\* ArchetypeMap::get_or_insert_dyn / get_or_insert: the registry after the
\* call and the id of the archetype it returns
ArchetypeMap_get_or_insert_dyn(ar, mp, ty, meta) ==
    IF ty \in DOMAIN mp
    THEN [arch |-> ar, map |-> mp, id |-> mp[ty]]
    ELSE LET id == Len(ar)
         IN  [ arch |-> Append(ar, Archetype_new(id, meta)),
               map  |-> [k \in DOMAIN mp \cup {ty} |-> IF k = ty THEN id ELSE mp[k]],
               id   |-> id ]

ArchetypeMap_get_or_insert(ar, mp, cmp) ==
    ArchetypeMap_get_or_insert_dyn(ar, mp, ComponentSet_key(cmp), ComponentSet_meta(cmp))

\* ArchetypeMap::get: the id of the archetype of a tuple type, if any
ArchetypeMap_get(mp, cmp) ==
    IF ComponentSet_key(cmp) \in DOMAIN mp THEN Some(mp[ComponentSet_key(cmp)]) ELSE None

-----------------------------------------------------------------------------
(* Scene                                                                    *)

\* Scene::contains
Scene_contains(e) == EntityMap_contains(entities, e)

\* the entities alive in the Scene
Live == { e \in Ents : Scene_contains(e) }

\* Scene::get
Scene_get(e, t) ==
    LET loc == EntityMap_get(entities, e)
    IN  IF loc = NULL THEN None
        ELSE Archetype_get(arch[loc.archetype + 1], loc, t)

\* Scene::has
Scene_has(e, t) == Scene_get(e, t) # None

\* Scene::archetype
Scene_archetype(cmp) == ArchetypeMap_get(map, cmp)

\* the highest instance a cell or a destructor call of the Scene names
Made ==
    LET ids == { i.id : i \in DOMAIN drops }
               \cup UNION { UNION { UNION { { a.chunks[c].data[t][k].id :
                                                k \in DOMAIN a.chunks[c].data[t] } :
                                            t \in DOMAIN a.chunks[c].data } :
                                    c \in DOMAIN a.chunks } :
                            a \in { arch[i] : i \in DOMAIN arch } }
    IN  IF ids = {} THEN 0 ELSE CHOOSE m \in ids : \A i \in ids : i <= m

Call(op, e, cmp, t, v, ret) ==
    [op |-> op, ent |-> e, cmp |-> cmp, ty |-> t, val |-> v, ret |-> ret]

\* threads of the process that call Entity::next
MaxThreads == 2
\* ids Entity::next hands to the threads in one behaviour
MaxIds == 4

Threads == 1..MaxThreads

\* a thread outside Entity::next that has received the ranges got
Idle(got) == [pc |-> "idle", n |-> 0, i |-> 0, got |-> got]

Init ==
    /\ threads = [t \in Threads |-> Idle(<< >>)]
    /\ NEXT_ID = << >>
    /\ impls = << >>
    /\ cursor = 0
    /\ entities = << >>
    /\ arch = << >>
    /\ map = << >>
    /\ panicked = FALSE
    /\ last = Call("default", 0, << >>, 0, 0, "none")
    /\ calls = 0
    /\ drops = << >>
    /\ destroyed = FALSE

\* a call can be made on the Scene
Callable == ~panicked /\ ~destroyed /\ calls < MaxCalls

\* Entity::next(1) called by another Scene of the process
EntityNext ==
    /\ ~panicked
    /\ UNCHANGED <<threads, NEXT_ID, impls>>
    /\ cursor < MaxEnt
    /\ cursor' = cursor + 1
    /\ UNCHANGED <<entities, arch, map, panicked, last, calls, drops, destroyed>>

\* Entity::next(n) in thread t up to `ENT_CURSOR.fetch_add(n, Relaxed)` read
\* without adding
Entity_next_Load(t, n) ==
    /\ threads[t].pc = "idle"
    /\ cursor + n <= MaxIds
    /\ threads' = [threads EXCEPT ![t] = [pc |-> "fetched", n |-> n, i |-> cursor,
                                          got |-> threads[t].got]]
    /\ UNCHANGED <<cursor, entities, arch, map, panicked, last, calls, drops, destroyed>>
    /\ UNCHANGED <<NEXT_ID, impls>>

\* Entity::next(n) in thread t up to `let i = ENT_CURSOR.fetch_add(n, Relaxed)`:
\* one atomic read-modify-write of the counter
Entity_next_fetch_add(t, n) ==
    /\ threads[t].pc = "idle"
    /\ cursor + n <= MaxIds
    /\ threads' = [threads EXCEPT ![t] = [pc |-> "fetched", n |-> n, i |-> cursor,
                                          got |-> threads[t].got]]
    /\ cursor' = cursor + n
    /\ UNCHANGED <<entities, arch, map, panicked, last, calls, drops, destroyed>>
    /\ UNCHANGED <<NEXT_ID, impls>>

\* the rest of Entity::next in thread t: `Range { start: i, end: i + n }`
Entity_next_return(t) ==
    /\ threads[t].pc = "fetched"
    /\ threads' = [threads EXCEPT ![t] =
                     Idle(Append(threads[t].got,
                                 [start |-> threads[t].i,
                                  end   |-> threads[t].i + threads[t].n,
                                  n     |-> threads[t].n]))]
    /\ UNCHANGED <<cursor, entities, arch, map, panicked, last, calls, drops, destroyed>>
    /\ UNCHANGED <<NEXT_ID, impls>>

\* the values a never-used slot can hold in the cells ComponentSet::insert
\* leaves unwritten for a tuple; the choice shows nowhere when every field of
\* the tuple is written
Uninit(cmp) ==
    IF TupleFields(Len(cmp)) = 0..(Len(cmp) - 1) THEN {1} ELSE Vals

\* Scene::spawn(cmp).  Intermediate results are bound with \E over a
\* one-element set, so that each is computed once.
Scene_spawn(cmp) ==
    /\ Callable
    /\ UNCHANGED <<threads, NEXT_ID, impls>>
    /\ cursor < MaxEnt
    /\ \E ent \in {cursor} :
       \E reg \in {ArchetypeMap_get_or_insert(arch, map, cmp)} :
       \E chunk \in FreeChoices(reg.arch[reg.id + 1]), g \in Uninit(cmp) :
       \E ins \in {Archetype_insert(reg.arch[reg.id + 1], ent, chunk, g)} :
       \E set \in {ComponentSet_insert(cmp, ins.arch, ins.loc, Made)} :
         /\ cursor' = cursor + 1
         /\ arch' = [reg.arch EXCEPT ![reg.id + 1] = set.arch]
         /\ map' = reg.map
         /\ entities' = EntityMap_insert(entities, ent, ins.loc)
         /\ last' = Call("spawn", ent, cmp, 0, 0, "some")
         /\ calls' = calls + 1
         /\ drops' = Tally(drops, set.drops)
         /\ UNCHANGED <<panicked, destroyed>>

\* Scene::despawn(ent) without the test of line 48: a location of NULL is used
\* as an index into the archetypes, which is out of bounds
Scene_despawn_Unchecked(ent) ==
    /\ Callable
    /\ UNCHANGED <<threads, NEXT_ID, impls>>
    /\ calls' = calls + 1
    /\ \E loc \in {EntityMap_get(entities, ent)} :
         IF loc.archetype >= Len(arch)
         THEN /\ panicked' = TRUE
              /\ last' = Call("despawn", ent, << >>, 0, 0, "panic")
              /\ UNCHANGED <<cursor, entities, arch, map, drops, destroyed>>
         ELSE \E rem \in {Archetype_remove(arch[loc.archetype + 1], loc, TRUE)} :
                IF rem.panic
                THEN /\ panicked' = TRUE
                     /\ last' = Call("despawn", ent, << >>, 0, 0, "panic")
                     /\ UNCHANGED <<cursor, entities, arch, map, drops, destroyed>>
                ELSE /\ arch' = [arch EXCEPT ![loc.archetype + 1] = rem.arch]
                     /\ entities' =
                           EntityMap_remove(
                               IF rem.moved # None
                               THEN EntityMap_insert(entities, rem.moved[1], loc)
                               ELSE entities,
                               ent)
                     /\ last' = Call("despawn", ent, << >>, 0, 0, "true")
                     /\ drops' = Tally(drops, rem.drops)
                     /\ UNCHANGED <<cursor, map, panicked, destroyed>>

\* Scene::despawn(ent)
Scene_despawn(ent) ==
    /\ Callable
    /\ UNCHANGED <<threads, NEXT_ID, impls>>
    /\ calls' = calls + 1
    /\ \E loc \in {EntityMap_get(entities, ent)} :
         IF loc = NULL
         THEN /\ last' = Call("despawn", ent, << >>, 0, 0, "false")
              /\ UNCHANGED <<cursor, entities, arch, map, panicked, drops, destroyed>>
         ELSE \E rem \in {Archetype_remove(arch[loc.archetype + 1], loc, TRUE)} :
                IF rem.panic
                THEN /\ panicked' = TRUE
                     /\ last' = Call("despawn", ent, << >>, 0, 0, "panic")
                     /\ UNCHANGED <<cursor, entities, arch, map, drops, destroyed>>
                ELSE /\ arch' = [arch EXCEPT ![loc.archetype + 1] = rem.arch]
                     /\ entities' =
                           EntityMap_remove(
                               IF rem.moved # None
                               THEN EntityMap_insert(entities, rem.moved[1], loc)
                               ELSE entities,
                               ent)
                     /\ last' = Call("despawn", ent, << >>, 0, 0, "true")
                     /\ drops' = Tally(drops, rem.drops)
                     /\ UNCHANGED <<cursor, map, panicked, destroyed>>

\* Scene::get_mut(ent) for type t, and a write of v through the reference
Scene_get_mut(ent, t, v) ==
    /\ Callable
    /\ UNCHANGED <<threads, NEXT_ID, impls>>
    /\ calls' = calls + 1
    /\ \E loc \in {EntityMap_get(entities, ent)}, got \in {Scene_get(ent, t)} :
         IF got = None
         THEN /\ last' = Call("get_mut", ent, << >>, t, v, "none")
              /\ UNCHANGED <<cursor, entities, arch, map, panicked, drops, destroyed>>
         ELSE IF got = Panic
         THEN /\ panicked' = TRUE
              /\ last' = Call("get_mut", ent, << >>, t, v, "panic")
              /\ UNCHANGED <<cursor, entities, arch, map, drops, destroyed>>
         ELSE /\ arch' = [arch EXCEPT ![loc.archetype + 1] =
                              Archetype_write(arch[loc.archetype + 1], loc, t, v)]
              /\ last' = Call("get_mut", ent, << >>, t, v, "some")
              /\ UNCHANGED <<cursor, entities, map, panicked, drops, destroyed>>

\* the component set Scene::add resolves for an entity at old_loc of old_arch:
\* metas and types of the archetype plus those of cmp the entity lacks, each
\* Vec sorted by its own Ord
Scene_add_types(old_arch, old_loc, cmp) ==
    LET old_ty == SeqOfSet(component_types(old_arch))
        new_ty == ComponentSet_meta(cmp)
        added  == SelectSeq([i \in DOMAIN cmp |-> new_ty[i].id],
                            LAMBDA t : Archetype_get_dyn(old_arch, old_loc, t) = None)
    IN  [ metas |-> SortMetas([i \in DOMAIN old_ty |-> old_arch.meta.cmp[old_ty[i]].ty]
                              \o [i \in DOMAIN added |-> TypeMeta_of(added[i])]),
          types |-> SortIds(old_ty \o added) ]

\* the `for ty in T::meta()` loop of Scene::add: the instances `ty.drop(ptr)`
\* is called on, one per type of cmp the old archetype has
Scene_add_drops(old_arch, old_loc, cmp) ==
    LET new_ty == ComponentSet_meta(cmp)
        had    == SelectSeq([i \in DOMAIN cmp |-> new_ty[i].id],
                            LAMBDA t : Archetype_get_dyn(old_arch, old_loc, t) # None)
    IN  [k \in DOMAIN had |-> Instance(had[k], Archetype_get_dyn(old_arch, old_loc, had[k])[1])]

\* the `for (ty, src) in old_cmp` loop of Scene::add: every component of the
\* old slot is copied to new_loc of new_arch
Scene_add_move(old_arch, old_loc, new_arch, new_loc) ==
    LET src == old_arch.chunks[old_loc.chunk + 1].data
        dst == new_arch.chunks[new_loc.chunk + 1].data
    IN  [new_arch EXCEPT !.chunks[new_loc.chunk + 1].data =
            [t \in DOMAIN dst |->
                IF t \in DOMAIN src
                THEN [dst[t] EXCEPT ![new_loc.index + 1] = src[t][old_loc.index + 1]]
                ELSE dst[t]]]

\* Scene::add(ent, cmp)
Scene_add(ent, cmp) ==
    /\ Callable
    /\ UNCHANGED <<threads, NEXT_ID, impls>>
    /\ calls' = calls + 1
    /\ \E old_loc \in {EntityMap_get(entities, ent)} :
         IF old_loc = NULL
         THEN /\ last' = Call("add", ent, cmp, 0, 0, "false")
              /\ UNCHANGED <<cursor, entities, arch, map, panicked, drops, destroyed>>
         ELSE
           \E old_arch \in {arch[old_loc.archetype + 1]} :
           \E sum \in {Scene_add_types(old_arch, old_loc, cmp)} :
           \E reg \in {ArchetypeMap_get_or_insert_dyn(arch, map, sum.types, sum.metas)} :
           \E chunk \in FreeChoices(reg.arch[reg.id + 1]), g \in Uninit(cmp) :
           \E ins \in {Archetype_insert(reg.arch[reg.id + 1], ent, chunk, g)} :
           \E copied \in {Scene_add_move(old_arch, old_loc, ins.arch, ins.loc)} :
           \E set \in {ComponentSet_insert(cmp, copied, ins.loc, Made)} :
           \E arch1 \in {[reg.arch EXCEPT ![reg.id + 1] = set.arch]} :
           \E dropped \in {Scene_add_drops(old_arch, old_loc, cmp) \o set.drops} :
           \E rem \in {Archetype_remove(arch1[old_loc.archetype + 1], old_loc, FALSE)} :
             IF rem.panic
             THEN /\ panicked' = TRUE
                  /\ last' = Call("add", ent, cmp, 0, 0, "panic")
                  /\ drops' = Tally(drops, dropped)
                  /\ UNCHANGED <<cursor, entities, arch, map, destroyed>>
             ELSE /\ arch' = [arch1 EXCEPT ![old_loc.archetype + 1] = rem.arch]
                  /\ map' = reg.map
                  /\ entities' =
                        EntityMap_insert(
                            IF rem.moved # None
                            THEN EntityMap_insert(entities, rem.moved[1], old_loc)
                            ELSE entities,
                            ent, ins.loc)
                  /\ last' = Call("add", ent, cmp, 0, 0, "true")
                  /\ drops' = Tally(drops, dropped)
                  /\ UNCHANGED <<cursor, panicked, destroyed>>

\* Drop for ArchetypeChunk: the buffer is released; the result is the
\* instances a destructor is called on before that
ArchetypeChunk_drop(chunk) == << >>

\* the instances destructors are called on when an archetype's chunks are
\* dropped, from chunk number from on
RECURSIVE Archetype_drop(_, _)
Archetype_drop(a, from) ==
    IF from > Len(a.chunks) THEN << >>
    ELSE ArchetypeChunk_drop(a.chunks[from]) \o Archetype_drop(a, from + 1)

RECURSIVE ArchetypeMap_drop(_, _)
ArchetypeMap_drop(ar, from) ==
    IF from > Len(ar) THEN << >>
    ELSE Archetype_drop(ar[from], 1) \o ArchetypeMap_drop(ar, from + 1)

\* the Scene goes out of scope: its directory and its archetypes are dropped,
\* and with them every chunk
Scene_drop ==
    /\ Callable
    /\ UNCHANGED <<threads, NEXT_ID, impls>>
    /\ calls' = calls + 1
    /\ destroyed' = TRUE
    /\ drops' = Tally(drops, ArchetypeMap_drop(arch, 1))
    /\ last' = Call("drop", 0, << >>, 0, 0, "none")
    /\ UNCHANGED <<cursor, entities, arch, map, panicked>>

Next ==
    \/ EntityNext
    \/ Scene_drop
    \/ \E cmp \in Tuples : Scene_spawn(cmp)
    \/ \E ent \in Ents : Scene_despawn(ent)
    \/ \E ent \in Ents, t \in 1..2, v \in Vals : Scene_get_mut(ent, t, v)
    \/ \E ent \in Ents, cmp \in Tuples : Scene_add(ent, cmp)

Spec == Init /\ [][Next]_vars

\* the same Scene used with the empty tuple and the 26-element tuple
NextWide ==
    \/ EntityNext
    \/ Scene_drop
    \/ \E cmp \in WideTuples : Scene_spawn(cmp)
    \/ \E ent \in Ents : Scene_despawn(ent)
    \/ \E ent \in Ents, t \in {1, MaxArity - 1}, v \in Vals : Scene_get_mut(ent, t, v)
    \/ \E ent \in Ents, cmp \in WideTuples : Scene_add(ent, cmp)

SpecWide == Init /\ [][NextWide]_vars

\* Scene::archetype::<T>() for the type of the tuple cmp: the call reads the
\* registry through &self; last holds whether an archetype was returned and
\* its id
Scene_archetype_call(cmp) ==
    /\ Callable
    /\ UNCHANGED <<threads, NEXT_ID, impls>>
    /\ calls' = calls + 1
    /\ \E r \in { Scene_archetype(cmp) } :
         last' = Call("archetype", 0, cmp, 0,
                      IF r = None THEN 0 ELSE r[1],
                      IF r = None THEN "none" ELSE "some")
    /\ UNCHANGED <<cursor, entities, arch, map, panicked, drops, destroyed>>

\* the same Scene used with every ordering of the tuples over three types
\* (T2 has the largest alignment), and asked for its archetypes
PermTypes == 1..3

PermTuples ==
    { [i \in 1..Len(s) |-> Elem(s[i], 1)] :
        s \in { q \in [1..2 -> PermTypes] \cup [1..3 -> PermTypes] :
                  \A i, j \in DOMAIN q : i # j => q[i] # q[j] } }

NextPerm ==
    \/ \E cmp \in PermTuples : Scene_spawn(cmp)
    \/ \E cmp \in PermTuples : Scene_archetype_call(cmp)

SpecPerm == Init /\ [][NextPerm]_vars

\* the same Scene filled by spawn and add and asked for its archetypes
QueryTuples ==
    { << >>, << Elem(1, 1) >>, << Elem(2, 1) >>,
      << Elem(1, 1), Elem(2, 1) >>, << Elem(2, 1), Elem(1, 1) >> }

NextQuery ==
    \/ \E cmp \in { << >>, << Elem(1, 1) >> } : Scene_spawn(cmp)
    \/ \E ent \in Ents, cmp \in { << Elem(2, 1) >> } : Scene_add(ent, cmp)
    \/ \E cmp \in QueryTuples : Scene_archetype_call(cmp)

SpecQuery == Init /\ [][NextQuery]_vars

\* threads that call Entity::next(n), next to a Scene that spawns
NextIds ==
    \/ \E t \in Threads, n \in 1..2 : Entity_next_fetch_add(t, n)
    \/ \E t \in Threads : Entity_next_return(t)
    \/ \E cmp \in { << >> } : Scene_spawn(cmp)

SpecIds == Init /\ [][NextIds]_vars

\* the same Scene spawning (T1, T2) entities and adding T3 to them, while
\* another Scene of the process takes ids
NextAdd ==
    \/ EntityNext
    \/ \E cmp \in { << Elem(1, 1), Elem(2, 2) >> } : Scene_spawn(cmp)
    \/ \E ent \in Ents, cmp \in { << Elem(3, 1) >>, << Elem(3, 2) >> } : Scene_add(ent, cmp)

SpecAdd == Init /\ [][NextAdd]_vars

-----------------------------------------------------------------------------
(* An EntityMap used on its own: insert and remove for entities of two      *)
(* buckets; last.cmp holds the location passed to insert.                   *)

MapEnts == {0, 1, SIZE}

MapLocs == { NULL, EntityLocation_new(0, 0, 0), EntityLocation_new(1, 0, 1) }

\* EntityMap::insert(e, loc).  For loc = NULL the debug_assert_ne! panics in a
\* build with debug assertions; a build without them goes on
Map_insert(e, loc) ==
    /\ ~panicked
    /\ UNCHANGED <<threads, NEXT_ID, impls>>
    /\ calls < MaxCalls
    /\ calls' = calls + 1
    /\ last' = Call("map_insert", e, << loc >>, 0, 0, "none")
    /\ \E debug_assertions \in BOOLEAN :
         IF loc = NULL /\ debug_assertions
         THEN panicked' = TRUE /\ UNCHANGED entities
         ELSE entities' = EntityMap_insert(entities, e, loc) /\ UNCHANGED panicked
    /\ UNCHANGED <<cursor, arch, map, drops, destroyed>>

\* EntityMap::remove(e)
Map_remove(e) ==
    /\ ~panicked
    /\ UNCHANGED <<threads, NEXT_ID, impls>>
    /\ calls < MaxCalls
    /\ calls' = calls + 1
    /\ last' = Call("map_remove", e, << >>, 0, 0, "none")
    /\ entities' = EntityMap_remove(entities, e)
    /\ UNCHANGED <<cursor, arch, map, panicked, drops, destroyed>>

NextMap ==
    \/ \E e \in MapEnts, loc \in MapLocs : Map_insert(e, loc)
    \/ \E e \in MapEnts : Map_remove(e)

SpecMap == Init /\ [][NextMap]_vars

-----------------------------------------------------------------------------
(* #[derive(Component)]: the crates of one program are compiled by one      *)
(* compiler process each, and each process loads the macro crate, whose     *)
(* static NEXT_ID starts at 0.                                              *)

MaxCrates == 2

MaxDerives == 3

\* a compiler process starts on the next crate of the program and loads the
\* macro crate: `static mut NEXT_ID: u64 = 0`
Compile_crate ==
    /\ Len(NEXT_ID) < MaxCrates
    /\ NEXT_ID' = Append(NEXT_ID, 0)
    /\ impls' = Append(impls, << >>)
    /\ UNCHANGED <<cursor, entities, arch, map, panicked, last, calls, drops,
                   destroyed, threads>>

\* derive_cmp expands one #[derive(Component)] of crate k, on a type with
\* generic parameters or without: `NEXT_ID += 1; let id = NEXT_ID;` and the
\* impl block with `const ID: CmpId = CmpId::from_u64(#id)`
derive_cmp(k, generics) ==
    /\ k \in DOMAIN NEXT_ID
    /\ Len(impls[k]) < MaxDerives
    /\ NEXT_ID' = [NEXT_ID EXCEPT ![k] = NEXT_ID[k] + 1]
    /\ \E id \in { NEXT_ID[k] + 1 } :
         impls' = [impls EXCEPT ![k] = Append(impls[k], [ID |-> id, generics |-> generics])]
    /\ UNCHANGED <<cursor, entities, arch, map, panicked, last, calls, drops,
                   destroyed, threads>>

NextDerive ==
    \/ Compile_crate
    \/ \E k \in 1..MaxCrates, generics \in BOOLEAN : derive_cmp(k, generics)

SpecDerive == Init /\ [][NextDerive]_vars

\* one tuple per arity the macro is invoked for: (A), (A, B), ..., (A, ..., Z)
ArityTuples == { [i \in 1..n |-> Elem(i, 1)] : n \in 0..MaxArity }

\* a Scene that spawns tuples of every arity
NextArity ==
    \E cmp \in ArityTuples : Scene_spawn(cmp)

SpecArity == Init /\ [][NextArity]_vars

\* a Scene whose entities are spawned with no or one component, given a
\* second one and despawned
NextLive ==
    \/ \E cmp \in { << >>, << Elem(1, 1) >> } : Scene_spawn(cmp)
    \/ \E ent \in Ents, cmp \in { << Elem(2, 1) >> } : Scene_add(ent, cmp)
    \/ \E ent \in Ents : Scene_despawn(ent)

SpecLive == Init /\ [][NextLive]_vars

\* the same Scene used with a tuple type that names one component type twice
DupTuples == { << >>, << Elem(1, 1) >>, << Elem(1, 1), Elem(1, 2) >> }

NextDup ==
    \/ EntityNext
    \/ Scene_drop
    \/ \E cmp \in DupTuples : Scene_spawn(cmp)
    \/ \E ent \in Ents : Scene_despawn(ent)
    \/ \E ent \in Ents, v \in Vals : Scene_get_mut(ent, 1, v)
    \/ \E ent \in Ents, cmp \in DupTuples : Scene_add(ent, cmp)

SpecDup == Init /\ [][NextDup]_vars

-----------------------------------------------------------------------------
(* The archetype registry called directly: get_or_insert_dyn with type      *)
(* descriptors of the caller, Archetype::insert and Archetype::remove.      *)
(* calls counts these calls, cursor hands out the entity ids.               *)

\* calls made on the registry in one behaviour
MaxOps == 5

\* a TypeMeta: type id, size_of and align_of
Meta(id, size, align) == [id |-> id, size |-> size, align |-> align]

\* the ids of a Vec<TypeMeta>, which key its archetype
MetaIds(ty) == [k \in DOMAIN ty |-> ty[k].id]

\* the component sets the registry is asked for: one 8000-byte component (one
\* entity a chunk), a 5000-byte and a 2000-byte component (two a chunk), and
\* one 16000-byte component
ArchMetas ==
    { << Meta(1, 8000, 8) >>,
      << Meta(2, 2000, 8), Meta(3, 5000, 4) >>,
      << Meta(4, 16000, 1) >> }

\* ArchetypeMap::get_or_insert_dyn with the sorted ids of ty as the key
Registry_get_or_insert(ty) ==
    /\ ~panicked
    /\ UNCHANGED <<threads, NEXT_ID, impls>>
    /\ calls < MaxOps
    /\ \E r \in { ArchetypeMap_get_or_insert_dyn(arch, map, SortIds(MetaIds(ty)), ty) } :
         /\ arch' = r.arch
         /\ map' = r.map
    /\ calls' = calls + 1
    /\ last' = Call("get_or_insert", 0, ty, 0, 0, "none")
    /\ UNCHANGED <<cursor, entities, panicked, drops, destroyed>>

\* Archetype::insert(Entity::next(1)) on archetype a.  In an archetype whose
\* chunks hold no entity the chunk is a zero-sized allocation and the id is
\* written past it: the call aborts or goes on as written
Registry_insert(a) ==
    /\ ~panicked
    /\ UNCHANGED <<threads, NEXT_ID, impls>>
    /\ calls < MaxOps
    /\ a \in 0..(Len(arch) - 1)
    /\ \E chunk \in FreeChoices(arch[a + 1]),
          aborts \in (IF arch[a + 1].meta.max = 0 THEN {TRUE, FALSE} ELSE {FALSE}) :
         IF aborts
         THEN /\ panicked' = TRUE
              /\ UNCHANGED arch
         ELSE /\ arch' = [arch EXCEPT ![a + 1] =
                            Archetype_insert(arch[a + 1], cursor, chunk, 1).arch]
              /\ UNCHANGED panicked
    /\ cursor' = cursor + 1
    /\ calls' = calls + 1
    /\ last' = Call("insert", cursor, << >>, a, 0, "none")
    /\ UNCHANGED <<entities, map, drops, destroyed>>

\* Archetype::remove(loc, drop) on an occupied slot of archetype a
Registry_remove(a, c, i, drop) ==
    /\ ~panicked
    /\ UNCHANGED <<threads, NEXT_ID, impls>>
    /\ calls < MaxOps
    /\ a \in 0..(Len(arch) - 1)
    /\ c \in 0..(Len(arch[a + 1].chunks) - 1)
    /\ i \in 0..(arch[a + 1].chunks[c + 1].len - 1)
    /\ \E rem \in { Archetype_remove(arch[a + 1], EntityLocation_new(a, c, i), drop) } :
         /\ arch' = [arch EXCEPT ![a + 1] = rem.arch]
         /\ drops' = Tally(drops, rem.drops)
         /\ panicked' = rem.panic
    /\ calls' = calls + 1
    /\ last' = Call("remove", 0, << >>, a, 0, "none")
    /\ UNCHANGED <<cursor, entities, map, destroyed>>

\* the ids the registry can give its archetypes
ArchIds == 0..(Cardinality(ArchMetas) - 1)

NextArch ==
    \/ \E ty \in ArchMetas : Registry_get_or_insert(ty)
    \/ \E a \in ArchIds : Registry_insert(a)
    \/ \E a \in ArchIds, c \in 0..MaxOps, i \in 0..MaxOps, drop \in BOOLEAN :
         Registry_remove(a, c, i, drop)

SpecArch == Init /\ [][NextArch]_vars

-----------------------------------------------------------------------------
(* The slots of the archetypes of a registry: Archetype::insert, set and    *)
(* remove called directly, each call recorded with its location (last.cmp)  *)
(* and with what it returned (last.ent, last.ret).                          *)

\* Archetype::insert(Entity::next(1)) on archetype a, as in Registry_insert
Archetype_insert_call(a) ==
    /\ ~panicked
    /\ UNCHANGED <<threads, NEXT_ID, impls>>
    /\ calls < MaxOps
    /\ a \in 0..(Len(arch) - 1)
    /\ \E chunk \in FreeChoices(arch[a + 1]), g \in Vals,
          aborts \in (IF arch[a + 1].meta.max = 0 THEN {TRUE, FALSE} ELSE {FALSE}) :
         IF aborts
         THEN /\ panicked' = TRUE
              /\ last' = Call("Archetype::insert", cursor, << >>, a, 0, "abort")
              /\ UNCHANGED arch
         ELSE \E ins \in { Archetype_insert(arch[a + 1], cursor, chunk, g) } :
                /\ arch' = [arch EXCEPT ![a + 1] = ins.arch]
                /\ last' = Call("Archetype::insert", cursor, << ins.loc >>, a, 0, "some")
                /\ UNCHANGED panicked
    /\ cursor' = cursor + 1
    /\ calls' = calls + 1
    /\ UNCHANGED <<entities, map, drops, destroyed>>

\* Archetype::set(loc, cmp) on an occupied slot, for a type of the archetype
Archetype_set_call(a, c, i, t, v) ==
    /\ ~panicked
    /\ UNCHANGED <<threads, NEXT_ID, impls>>
    /\ calls < MaxOps
    /\ a \in 0..(Len(arch) - 1)
    /\ c \in 0..(Len(arch[a + 1].chunks) - 1)
    /\ i \in 0..(arch[a + 1].chunks[c + 1].len - 1)
    /\ contains_dyn(arch[a + 1], t)
    /\ \E set \in { Archetype_set(arch[a + 1], EntityLocation_new(a, c, i), t, v, Made + 1) } :
         /\ arch' = [arch EXCEPT ![a + 1] = set.arch]
         /\ drops' = Tally(drops, set.drops)
    /\ calls' = calls + 1
    /\ last' = Call("Archetype::set", 0, << EntityLocation_new(a, c, i) >>, t, v, "none")
    /\ UNCHANGED <<cursor, entities, map, panicked, destroyed>>

\* Archetype::remove(loc, drop) on an occupied slot of archetype a, as in
\* Registry_remove
Archetype_remove_call(a, c, i, drop) ==
    /\ ~panicked
    /\ UNCHANGED <<threads, NEXT_ID, impls>>
    /\ calls < MaxOps
    /\ a \in 0..(Len(arch) - 1)
    /\ c \in 0..(Len(arch[a + 1].chunks) - 1)
    /\ i \in 0..(arch[a + 1].chunks[c + 1].len - 1)
    /\ \E rem \in { Archetype_remove(arch[a + 1], EntityLocation_new(a, c, i), drop) } :
         /\ arch' = [arch EXCEPT ![a + 1] = rem.arch]
         /\ drops' = Tally(drops, rem.drops)
         /\ panicked' = rem.panic
         /\ last' = Call("Archetype::remove",
                         IF rem.moved = None THEN 0 ELSE rem.moved[1],
                         << EntityLocation_new(a, c, i) >>, a, 0,
                         IF rem.panic THEN "panic"
                         ELSE IF rem.moved = None THEN "none" ELSE "some")
    /\ calls' = calls + 1
    /\ UNCHANGED <<cursor, entities, map, destroyed>>

\* the component sets of the archetypes: an 8000-byte component (capacity
\* 1), a 2000-byte with a 3000-byte component (capacity 3) and a 16000-byte
\* component (capacity 0)
SlotMetas ==
    { << Meta(1, 8000, 8) >>,
      << Meta(2, 2000, 8), Meta(3, 3000, 4) >>,
      << Meta(4, 16000, 1) >> }

SlotArchs == 0..(Cardinality(SlotMetas) - 1)

NextSlot ==
    \/ \E ty \in SlotMetas : Registry_get_or_insert(ty)
    \/ \E a \in SlotArchs : Archetype_insert_call(a)
    \/ \E a \in SlotArchs, c \in 0..MaxOps, i \in 0..MaxOps, t \in 1..4, v \in Vals :
         Archetype_set_call(a, c, i, t, v)
    \/ \E a \in SlotArchs, c \in 0..MaxOps, i \in 0..MaxOps, drop \in BOOLEAN :
         Archetype_remove_call(a, c, i, drop)

SpecSlot == Init /\ [][NextSlot]_vars

-----------------------------------------------------------------------------
(* The layout of an archetype (Archetype::new) for the component sets over  *)
(* nine types: two 12-byte align-4 types (Pos, Vel), a zero-sized type, a   *)
(* 16-byte align-16 type, a byte, an align-8 word, a 16000-byte type, a     *)
(* 6-byte align-2 type and a 4-byte align-4 type.                           *)

\* types of one component set
MaxTypes == 3

LayoutTypes == 1..9

TypeMeta_dyn(t) ==
    CASE t = 1 -> Meta(1, 12, 4)
      [] t = 2 -> Meta(2, 12, 4)
      [] t = 3 -> Meta(3, 0, 1)
      [] t = 4 -> Meta(4, 16, 16)
      [] t = 5 -> Meta(5, 1, 1)
      [] t = 6 -> Meta(6, 8, 8)
      [] t = 7 -> Meta(7, 16000, 1)
      [] t = 8 -> Meta(8, 6, 2)
      [] OTHER -> Meta(t, 4, 4)

\* the descriptors of a set of types, sorted by TypeMeta's Ord as
\* get_or_insert_dyn requires
MetasOf(S) == SortMetas([k \in 1..Cardinality(S) |-> TypeMeta_dyn(SeqOfSet(S)[k])])

LayoutMetas == { MetasOf(S) : S \in { X \in SUBSET LayoutTypes : Cardinality(X) <= MaxTypes } }

\* the first archetype of a registry is built
NextLayout ==
    \E ty \in LayoutMetas : Len(arch) = 0 /\ Registry_get_or_insert(ty)

SpecLayout == Init /\ [][NextLayout]_vars

-----------------------------------------------------------------------------
(* The two descriptor types compared with their Ord and PartialEq impls:    *)
(* TypeMeta (ty.rs) and CmpMeta (cmp.rs).  last.cmp holds the two           *)
(* descriptors, last.ret what cmp returned, last.val whether eq held.       *)

\* PartialEq for TypeMeta: `self.id == other.id`
TypeMeta_eq(a, b) == a.id = b.id

\* Ord for CmpMeta: `self.id.cmp(&other.id)`
CmpMeta_cmp(a, b) ==
    IF a.id < b.id THEN "Less" ELSE IF a.id > b.id THEN "Greater" ELSE "Equal"

\* PartialEq for CmpMeta: `self.id.eq(&other.id)`
CmpMeta_eq(a, b) == a.id = b.id

\* the descriptors compared: one per type, as TypeMeta::of / Component::META
\* give them
Descriptors == { TypeMeta_dyn(t) : t \in LayoutTypes }

TypeMeta_cmp_call(a, b) ==
    /\ last' = Call("TypeMeta::cmp", 0, << a, b >>, 0,
                    IF TypeMeta_eq(a, b) THEN 1 ELSE 0, TypeMeta_cmp(a, b))
    /\ UNCHANGED <<cursor, entities, arch, map, panicked, calls, drops, destroyed,
                   threads, NEXT_ID, impls>>

CmpMeta_cmp_call(a, b) ==
    /\ last' = Call("CmpMeta::cmp", 0, << a, b >>, 0,
                    IF CmpMeta_eq(a, b) THEN 1 ELSE 0, CmpMeta_cmp(a, b))
    /\ UNCHANGED <<cursor, entities, arch, map, panicked, calls, drops, destroyed,
                   threads, NEXT_ID, impls>>

NextOrd ==
    \/ \E a, b \in Descriptors : TypeMeta_cmp_call(a, b)
    \/ \E a, b \in Descriptors : CmpMeta_cmp_call(a, b)

SpecOrd == Init /\ [][NextOrd]_vars

-----------------------------------------------------------------------------
(* Properties                                                               *)

\* directory[e]
Loc(e) == EntityMap_get(entities, e)

\* the chunk a location names
ChunkAt(loc) == arch[loc.archetype + 1].chunks[loc.chunk + 1]

\* the component types of the archetype a live entity is stored in
TypesOf(e) == component_types(arch[Loc(e).archetype + 1])

\* the id column (ArchetypeChunk::entities, len entries) read at a location
IdAt(loc) ==
    IF loc.index < ChunkAt(loc).len THEN Some(ChunkAt(loc).ents[loc.index + 1]) ELSE None

\* every (archetype, chunk) pair of the Scene, 0-based
ChunkIds ==
    { <<a, c>> \in (0..(Len(arch) - 1)) \X (0..MaxEnt) : c < Len(arch[a + 1].chunks) }

\* the len of every chunk of the Scene
Lens == [ac \in ChunkIds |-> arch[ac[1] + 1].chunks[ac[2] + 1].len]

\* the step is a call of op on the Scene
Called(op) == calls' = calls + 1 /\ last'.op = op

\* C1: for every live entity e the id column at directory[e] holds e, and no
\* two live entities share a location
C1_DirectoryBijection ==
    /\ \A e \in Live : IdAt(Loc(e)) = Some(e)
    /\ \A e1, e2 \in Live : e1 # e2 => Loc(e1) # Loc(e2)

\* C2: every chunk has len <= capacity, as many directory entries point into
\* a chunk as its len, and no directory entry names a slot >= len
C2_Packed ==
    /\ \A ac \in ChunkIds :
         /\ Lens[ac] <= arch[ac[1] + 1].meta.max
         /\ Cardinality({ e \in Live : Loc(e).archetype = ac[1] /\ Loc(e).chunk = ac[2] })
              = Lens[ac]
    /\ \A e \in Live : Loc(e).index < ChunkAt(Loc(e)).len

\* C3: add(e, tuple) on a live e that already has every type of the tuple
\* returns true, leaves directory[e] as it was and changes no chunk's len
C3_AddExistingDoesNotMigrate ==
    [][ \A e \in Ents :
          ( /\ Called("add") /\ last'.ent = e
            /\ Scene_contains(e)
            /\ TupleTypes(last'.cmp) \subseteq TypesOf(e) )
          => ( /\ last'.ret = "true"
               /\ Loc(e)' = Loc(e)
               /\ Lens' = Lens ) ]_vars

\* C4: at most one archetype per component set: no two archetypes hold the
\* same set of types, and an entity whose component set is that of a tuple
\* type is stored in the archetype Scene::archetype returns for that tuple type
C4_OneArchetypePerSet ==
    /\ \A i, j \in 1..Len(arch) :
         i # j => component_types(arch[i]) # component_types(arch[j])
    /\ \A e \in Live, cmp \in Tuples :
         TypesOf(e) = TupleTypes(cmp) => Scene_archetype(cmp) = Some(Loc(e).archetype)

\* the value a tuple supplies for a type
Supplied(cmp, t) == cmp[CHOOSE i \in DOMAIN cmp : cmp[i].ty = t].val

\* C5: after add(e, tuple) returned true, get(e) is the supplied value for
\* every type of the tuple and the value e held before for every other type
\* e had
C5_AddThenGet ==
    [][ \A e \in Ents :
          (Called("add") /\ last'.ent = e /\ last'.ret = "true")
          => \A t \in TypeIds :
               IF t \in TupleTypes(last'.cmp)
               THEN Scene_get(e, t)' = Some(Supplied(last'.cmp, t))
               ELSE Scene_get(e, t) # None => Scene_get(e, t)' = Scene_get(e, t) ]_vars

\* C6: despawn(e) and add(e, ...) leave every component of every other live
\* entity as it was
C6_OthersUnchanged ==
    [][ (Called("despawn") \/ Called("add"))
        => \A e \in Live \ {last'.ent} : \A t \in TypeIds :
             Scene_get(e, t)' = Scene_get(e, t) ]_vars

\* C7: after e = spawn(tuple), get(e) is the supplied value for every type of
\* the tuple and None for every other type
C7_SpawnThenGet ==
    [][ \A e \in Ents :
          (Called("spawn") /\ last'.ent = e)
          => \A t \in TypeIds :
               Scene_get(e, t)' =
                  IF t \in TupleTypes(last'.cmp)
                  THEN Some(Supplied(last'.cmp, t))
                  ELSE None ]_vars

\* C8: a write through get_mut::<T>(e) is what get::<T>(e) returns afterwards,
\* and no other component of e or of another entity changes
C8_GetMutWrite ==
    [][ \A e \in Ents, t \in TypeIds :
          (Called("get_mut") /\ last'.ent = e /\ last'.ty = t /\ last'.ret = "some")
          => /\ Scene_get(e, t)' = Some(last'.val)
             /\ \A e2 \in Ents, t2 \in TypeIds :
                  (e2 # e \/ t2 # t) => Scene_get(e2, t2)' = Scene_get(e2, t2) ]_vars

\* C9: spawn makes exactly one new entity live; despawn of a live entity
\* returns true and the entity is not contained afterwards; despawn of the
\* entity the preceding spawn returned restores the set of live entities
C9_SpawnDespawn ==
    [][ \A e \in Ents :
          /\ (Called("spawn") /\ last'.ent = e)
               => /\ e \notin Live
                  /\ Live' = Live \cup {e}
                  /\ Cardinality(Live') = Cardinality(Live) + 1
          /\ (Called("despawn") /\ last'.ent = e /\ Scene_contains(e))
               => /\ last'.ret = "true"
                  /\ ~Scene_contains(e)'
          /\ (Called("despawn") /\ last'.ent = e /\ last.op = "spawn" /\ last.ent = e)
               => Live' = Live \ {e} ]_vars

DropCount(i) == IF i \in DOMAIN drops THEN drops[i] ELSE 0

\* the component instances in the slot directory[e] names
ComponentsOf(e) ==
    { Instance(t, ChunkAt(Loc(e)).data[t][Loc(e).index + 1]) : t \in TypesOf(e) }

\* C11: despawn(e) on a live entity calls the destructor of every component
\* of e exactly once, whichever slot of its chunk e occupies
C11_DespawnDropsOnce ==
    [][ \A e \in Ents :
          (Called("despawn") /\ last'.ent = e /\ Scene_contains(e))
          => \A i \in ComponentsOf(e) : DropCount(i)' = DropCount(i) + 1 ]_vars

\* C12: over any sequence of spawn, add and despawn no component value has
\* its destructor called more than once; when add(e, tuple) overwrites a
\* component e has, the old value is destroyed exactly once and the new
\* value is not destroyed by the call
C12_NoDoubleDrop ==
    [][ /\ \A i \in DOMAIN drops' : i.id # 0 => drops'[i] <= 1
        /\ \A e \in Ents :
             (Called("add") /\ last'.ent = e /\ last'.ret = "true")
             => /\ \A i \in ComponentsOf(e) :
                     i.ty \in TupleTypes(last'.cmp) => DropCount(i)' = DropCount(i) + 1
                /\ \A i \in ComponentsOf(e)' :
                     i.ty \in TupleTypes(last'.cmp) => DropCount(i)' = 0 ]_vars

\* the component instances in the occupied slots [0, len) of every chunk
Occupied ==
    UNION { UNION { { Instance(t, arch[ac[1] + 1].chunks[ac[2] + 1].data[t][k]) :
                        k \in 1..Lens[ac] } :
                    t \in component_types(arch[ac[1] + 1]) } :
            ac \in ChunkIds }

\* C13: when the chunks are destroyed with the Scene, the destructor of every
\* component in every occupied slot [0, len) is called once before the buffer
\* is released
C13_ChunkDropDestructs ==
    [][ Called("drop") => \A i \in Occupied : DropCount(i)' = DropCount(i) + 1 ]_vars


\* the (archetype, chunk) pairs of the registry, 0-based
Chunks ==
    { ac \in (0..(Len(arch) - 1)) \X (0..MaxOps) : ac[2] < Len(arch[ac[1] + 1].chunks) }

\* C14: after any sequence of Archetype::insert and Archetype::remove a chunk
\* index is in the free set of its archetype exactly when the chunk's len is
\* below the capacity
C14_FreeIffVacant ==
    \A ac \in Chunks :
       (ac[2] \in arch[ac[1] + 1].free)
          <=> (arch[ac[1] + 1].chunks[ac[2] + 1].len < arch[ac[1] + 1].meta.max)

\* C15: a component set whose entry size (8 + the sum of the sizes) is above
\* 16_000 is rejected, so that no archetype has capacity 0
C15_NoZeroCapacity ==
    \A a \in 1..Len(arch) : arch[a].meta.max >= 1

\* C16: a tuple type that names the same component type twice is rejected, so
\* that no key of the archetype registry holds a type id twice
C16_NoRepeatedTypeId ==
    \A key \in DOMAIN map :
       \A i, j \in DOMAIN key : i # j => key[i] # key[j]

\* the archetype get_or_insert_dyn has just built from the descriptors last.cmp
Built == last.op = "get_or_insert" /\ Len(arch) = 1

\* the entry size of a list of descriptors: the entity id and one component
\* of each type
RECURSIVE EntrySize(_)
EntrySize(ty) ==
    IF ty = << >> THEN SizeOfEntId ELSE Head(ty).size + EntrySize(Tail(ty))

\* C17: the capacity of an archetype is floor(16_000 / entry_size) with
\* entry_size = 8 + the sum of the component sizes; for two 12-byte components
\* entry_size is 32 and the capacity is 500
C17_Capacity ==
    Built =>
      LET max   == arch[1].meta.max
          entry == EntrySize(last.cmp)
      IN  /\ max * entry <= 16000
          /\ 16000 < (max + 1) * entry
          /\ last.cmp = << Meta(1, 12, 4), Meta(2, 12, 4) >> => entry = 32 /\ max = 500

\* the archetype of (Pos, Vel) is built and holds 500 entities a chunk
C17_PosVel ==
    /\ Built
    /\ last.cmp = << Meta(1, 12, 4), Meta(2, 12, 4) >>
    /\ arch[1].meta.max = 500

\* the byte range [ColumnStart, ColumnEnd) of the column of type t in a chunk
\* of archetype a
ColumnStart(a, t) == a.meta.cmp[t].offset
ColumnEnd(a, t) == a.meta.cmp[t].offset + a.meta.cmp[t].ty.size * a.meta.max

\* no two columns of archetype a share a byte
ColumnsDisjoint(a) ==
    \A t, u \in component_types(a) :
       t # u => \/ ColumnEnd(a, t) <= ColumnStart(a, u)
                \/ ColumnEnd(a, u) <= ColumnStart(a, t)

\* every column offset of archetype a is a multiple of its type's alignment
ColumnsAligned(a) ==
    \A t \in component_types(a) : ColumnStart(a, t) % a.meta.cmp[t].ty.align = 0

\* C18 as stated: every column offset is inside [capacity*8, alloc_bytes), no
\* two columns overlap each other or the id column, and every column offset
\* is a multiple of its type's alignment
C18_OffsetsInside ==
    \A a \in 1..Len(arch) :
       /\ \A t \in component_types(arch[a]) :
            /\ SizeOfEntId * arch[a].meta.max <= ColumnStart(arch[a], t)
            /\ ColumnStart(arch[a], t) < arch[a].meta.layout.size
       /\ ColumnsDisjoint(arch[a])
       /\ ColumnsAligned(arch[a])

\* C18 amended: every column's byte range is inside
\* [capacity*8, alloc_bytes], so that its offset is below alloc_bytes unless
\* the column has no bytes; no two columns overlap each other or the id
\* column, and every column offset is a multiple of its type's alignment
C18_ColumnsInside ==
    \A a \in 1..Len(arch) :
       /\ \A t \in component_types(arch[a]) :
            /\ SizeOfEntId * arch[a].meta.max <= ColumnStart(arch[a], t)
            /\ ColumnEnd(arch[a], t) <= arch[a].meta.layout.size
            /\ ColumnStart(arch[a], t) = arch[a].meta.layout.size
                 => ColumnEnd(arch[a], t) = ColumnStart(arch[a], t)
       /\ ColumnsDisjoint(arch[a])
       /\ ColumnsAligned(arch[a])

\* a layout of three columns is built in which a column was padded to its
\* alignment and the column of a zero-sized type starts at alloc_bytes
C18_PaddedWithZeroSized ==
    /\ Built
    /\ Cardinality(component_types(arch[1])) = 3
    /\ \E t \in component_types(arch[1]) :
         /\ arch[1].meta.cmp[t].ty.size = 0
         /\ ColumnStart(arch[1], t) = arch[1].meta.layout.size
    /\ \E t \in component_types(arch[1]) :
         /\ ColumnStart(arch[1], t) > SizeOfEntId * arch[1].meta.max
         /\ \A u \in component_types(arch[1]) :
              ColumnEnd(arch[1], u) # ColumnStart(arch[1], t)

\* the number of entities stored in a set of chunks
RECURSIVE SumLens(_)
SumLens(S) ==
    IF S = {} THEN 0
    ELSE LET ac == CHOOSE x \in S : TRUE
         IN  arch[ac[1] + 1].chunks[ac[2] + 1].len + SumLens(S \ {ac})

\* the chunks of archetype a (0-based)
ChunksOf(a) == { ac \in Chunks : ac[1] = a }

\* every entity ever inserted is still stored: no Archetype::remove was called
NoRemovals == SumLens(Chunks) = cursor

\* with no removals so far, an archetype that holds N entities has
\* ceil(N / capacity) chunks, all of them full except possibly one
ChunksPacked ==
    NoRemovals =>
      \A a \in 0..(Len(arch) - 1) :
         LET n   == SumLens(ChunksOf(a))
             k   == Len(arch[a + 1].chunks)
             max == arch[a + 1].meta.max
         IN  /\ IF n = 0 THEN k = 0 ELSE k * max >= n /\ (k - 1) * max < n
             /\ Cardinality({ ac \in ChunksOf(a) :
                                arch[a + 1].chunks[ac[2] + 1].len # max }) <= 1

\* C19: Archetype::insert allocates a new chunk only when no existing chunk
\* has a vacant slot, and after N inserts with no removals the archetype has
\* ceil(N / capacity) chunks, every one but possibly one with len = capacity
C19_ChunkPerCapacity ==
    [][ /\ \A a \in ArchIds :
             ( /\ calls' = calls + 1 /\ last'.op = "insert" /\ last'.ty = a
               /\ Len(arch'[a + 1].chunks) > Len(arch[a + 1].chunks) )
             => \A ac \in ChunksOf(a) :
                  arch[a + 1].chunks[ac[2] + 1].len >= arch[a + 1].meta.max
        /\ ChunksPacked' ]_vars

\* every chunk of an archetype that stores no entity has len 0 and is in the
\* free set
Emptied ==
    \A ac \in Chunks :
       SumLens(ChunksOf(ac[1])) = 0
         => /\ arch[ac[1] + 1].chunks[ac[2] + 1].len = 0
            /\ ac[2] \in arch[ac[1] + 1].free

\* C20: the archetype vector and every chunk vector only grow and an index
\* keeps naming the same archetype; a removal leaves every chunk count as it
\* was, and once all entities of an archetype are removed every chunk of it
\* has len 0 and is in the free set
C20_StableIndices ==
    [][ /\ Len(arch') >= Len(arch)
        /\ \A a \in 1..Len(arch) :
             /\ arch'[a].meta = arch[a].meta
             /\ Len(arch'[a].chunks) >= Len(arch[a].chunks)
             /\ (calls' = calls + 1 /\ last'.op \in {"remove", "despawn"})
                  => Len(arch'[a].chunks) = Len(arch[a].chunks)
        /\ \A key \in DOMAIN map : key \in DOMAIN map' /\ map'[key] = map[key]
        /\ Emptied' ]_vars

\* two entities were inserted into an archetype of capacity 1 and both were
\* removed: its two chunks are empty
C20_AllRemoved ==
    /\ last.op = "remove"
    /\ \E a \in 1..Len(arch) :
         /\ arch[a].meta.max = 1
         /\ Len(arch[a].chunks) = 2
         /\ SumLens(ChunksOf(a - 1)) = 0
         /\ arch[a].free = {0, 1}

\* C21: the archetype a tuple type resolves to does not depend on the order
\* of the tuple's elements: after spawn(cmp), Scene::archetype of every
\* ordering of cmp's types is the archetype the entity was put in
C21_OrderIndependent ==
    [][ \A e \in Ents :
          (Called("spawn") /\ last'.ent = e)
          => \A cmp \in PermTuples :
               TupleTypes(cmp) = TupleTypes(last'.cmp)
                 => Scene_archetype(cmp)' = Some(Loc(e).archetype)' ]_vars

\* an entity was spawned with (T1, T2, T3) and Scene::archetype::<(T3, T2, T1)>
\* then returned the archetype it is stored in
C21_Reordered ==
    /\ last.op = "archetype"
    /\ last.ret = "some"
    /\ last.cmp = << Elem(3, 1), Elem(2, 1), Elem(1, 1) >>
    /\ \E e \in Live :
         /\ Loc(e).archetype = last.val
         /\ TypesOf(e) = {1, 2, 3}

\* the values of the registry's map are the indices of the archetype vector,
\* each the value of one key, and every archetype stores its index as its id
RegistryBijective ==
    /\ \A a \in 1..Len(arch) : arch[a].meta.id = a - 1
    /\ { map[k] : k \in DOMAIN map } = 0..(Len(arch) - 1)
    /\ \A k1, k2 \in DOMAIN map : k1 # k2 => map[k1] # map[k2]

\* C22: get_or_insert is idempotent per key: the first call for a key appends
\* exactly one archetype, whose id is its index, and maps the key to it; a
\* later call for the key changes nothing; so the map's values are the
\* indices of the archetypes, each once
C22_GetOrInsertIdempotent ==
    [][ /\ (calls' = calls + 1 /\ last'.op = "get_or_insert")
           => LET key == SortIds(MetaIds(last'.cmp))
              IN  IF key \in DOMAIN map
                  THEN arch' = arch /\ map' = map
                  ELSE /\ Len(arch') = Len(arch) + 1
                       /\ \A a \in 1..Len(arch) : arch'[a] = arch[a]
                       /\ arch'[Len(arch')].meta.id = Len(arch)
                       /\ DOMAIN map' = DOMAIN map \cup {key}
                       /\ map'[key] = Len(arch)
                       /\ \A k \in DOMAIN map : map'[k] = map[k]
        /\ RegistryBijective' ]_vars

\* get_or_insert was called twice for one key and once for another: two
\* archetypes after three calls
C22_SecondCall ==
    /\ last.op = "get_or_insert"
    /\ calls = 3
    /\ cursor = 0
    /\ Len(arch) = 2

\* the archetypes spawn and add have produced for a set of types
Produced(types) == { a \in 1..Len(arch) : component_types(arch[a]) = types }

\* C23: Scene::archetype never creates an archetype: it leaves the registry
\* unchanged, returns None for a component set no spawn or add has produced
\* and returns the archetype of a set that has been produced
C23_ArchetypeLookup ==
    [][ Called("archetype")
        => /\ arch' = arch
           /\ map' = map
           /\ IF Produced(TupleTypes(last'.cmp)) = {}
              THEN last'.ret = "none"
              ELSE /\ last'.ret = "some"
                   /\ last'.val + 1 \in Produced(TupleTypes(last'.cmp)) ]_vars

\* the calls of Entity::next that have returned: (thread, number of the call)
Returned == { c \in Threads \X (1..MaxIds) : c[2] <= Len(threads[c[1]].got) }

RangeOf(c) == threads[c[1]].got[c[2]]

\* C24: under any interleaving of Entity::next(n) calls each call returns a
\* range of n consecutive ids, the ranges of different calls are disjoint,
\* and no id a Scene spawned with is in a range
C24_DisjointRanges ==
    /\ \A c \in Returned :
         /\ RangeOf(c).n > 0
         /\ RangeOf(c).end = RangeOf(c).start + RangeOf(c).n
         /\ \A e \in Live : ~(RangeOf(c).start <= e /\ e < RangeOf(c).end)
    /\ \A c1, c2 \in Returned :
         c1 # c2 => \/ RangeOf(c1).end <= RangeOf(c2).start
                    \/ RangeOf(c2).end <= RangeOf(c1).start

\* thread 2 has made a whole call of Entity::next(2) while thread 1 was
\* between its fetch_add and its return, and a Scene has spawned in between
C24_Interleaved ==
    /\ threads[1].pc = "fetched"
    /\ Len(threads[2].got) = 1
    /\ threads[2].got[1].n = 2
    /\ threads[1].i < threads[2].got[1].start
    /\ \E e \in Live : threads[1].i < e /\ e < threads[2].got[1].start

\* every entity of the Scene has been given a T3 by add
AllAdded == Live # {} /\ \A e \in Live : 3 \in TypesOf(e)

C26_MapRoundTrip ==
    [][ \A e \in MapEnts :
          /\ (Called("map_insert") /\ last'.ent = e /\ last'.cmp # << NULL >>)
             => /\ << EntityMap_get(entities', e) >> = last'.cmp
                /\ EntityMap_contains(entities', e)
          /\ (Called("map_remove") /\ last'.ent = e)
             => /\ EntityMap_get(entities', e) = NULL
                /\ ~EntityMap_contains(entities', e) ]_vars

\* entity 0 had a location replaced by a second insert and was then removed
\* from a bucket that still holds entity 1
C26_RemovedAfterReplace ==
    /\ last.op = "map_remove"
    /\ last.ent = 0
    /\ calls = 4
    /\ ~EntityMap_contains(entities, 0)
    /\ EntityMap_contains(entities, 1)
    /\ entities[0].len = 1

\* C27: insert(e, NULL) panics and leaves the map unchanged, so that the len
\* of every bucket is the number of its slots that are not NULL
C27_InsertNullRejected ==
    [][ /\ (Called("map_insert") /\ last'.cmp = << NULL >>)
           => panicked' /\ entities' = entities
        /\ \A k \in DOMAIN entities' :
             entities'[k].len
               = Cardinality({ i \in 0..(SIZE - 1) : entities'[k].map[i] # NULL }) ]_vars

\* the entity is not in the Scene, or its archetype does not hold type t
Lacks(e, t) == ~Scene_contains(e) \/ t \notin TypesOf(e)

\* C28: for a type that is not in the archetype of a chunk, components (and
\* its _mut and _dyn flavours) panics while try_components answers None; for
\* a type that is in it both give the len occupied cells of the column.
\* Scene::get and has answer None and false for an entity that lacks the
\* type, and a get_mut call for it returns None without panicking
C28_MissingType ==
    [][ /\ \A a \in DOMAIN arch' : \A c \in 0..(Len(arch'[a].chunks) - 1) :
             \A t \in 1..MaxTypes :
               IF contains_dyn(arch'[a], t)
               THEN /\ ArchetypeChunk_components(arch'[a], c, t)
                         = ArchetypeChunk_try_components(arch'[a], c, t)
                    /\ Len(ArchetypeChunk_components(arch'[a], c, t)[1])
                         = arch'[a].chunks[c + 1].len
               ELSE /\ ArchetypeChunk_components(arch'[a], c, t) = Panic
                    /\ ArchetypeChunk_try_components(arch'[a], c, t) = None
        /\ \A e \in Ents, t \in 1..MaxTypes :
             Lacks(e, t) => Scene_get(e, t) = None /\ ~Scene_has(e, t)
        /\ \A e \in Ents, t \in 1..MaxTypes :
             (Called("get_mut") /\ last'.ent = e /\ last'.ty = t /\ Lacks(e, t))
               => last'.ret = "none" /\ ~panicked' /\ arch' = arch ]_vars

\* get_mut was asked for type 2 of a live entity stored with type 1 only
C28_AskedForMissing ==
    /\ last.op = "get_mut"
    /\ last.ret = "none"
    /\ last.ty = 2
    /\ Scene_contains(last.ent)
    /\ TypesOf(last.ent) = {1}
    /\ ChunkAt(Loc(last.ent)).len > 0
    /\ ArchetypeChunk_components(arch[Loc(last.ent).archetype + 1], Loc(last.ent).chunk, 2) = Panic

\* the type arguments a generic component type is used with in the program
TypeArgs == {1, 2}

\* the component types of the program: <<crate, derive, type argument>>, one
\* per derive on a plain type and one per type argument of a generic one
ComponentTypes ==
    { ty \in (DOMAIN impls) \X (1..MaxDerives) \X (TypeArgs \cup {0}) :
        /\ ty[2] <= Len(impls[ty[1]])
        /\ IF impls[ty[1]][ty[2]].generics THEN ty[3] \in TypeArgs ELSE ty[3] = 0 }

\* <T as Component>::ID
Component_ID(ty) == impls[ty[1]][ty[2]].ID

\* C29: two distinct component types never share an id
C29_UniqueCmpId ==
    \A s, t \in ComponentTypes : s # t => Component_ID(s) # Component_ID(t)

\* the Ord impl a recorded comparison used
OrdOf(op, a, b) ==
    IF op = "TypeMeta::cmp" THEN TypeMeta_cmp(a, b) ELSE CmpMeta_cmp(a, b)

\* (alignment descending, type id ascending) for the descriptors a and b,
\* with the result r of cmp and the result eq of ==, under the impl of op
AlignThenId(op, a, b, r, eq) ==
    /\ a.align > b.align => r = "Less"
    /\ a.align < b.align => r = "Greater"
    /\ a.align = b.align => r = TypeId_cmp(a.id, b.id)
    /\ (r = "Equal") <=> eq
    /\ eq <=> a.id = b.id
    /\ (r = "Less") <=> OrdOf(op, b, a) = "Greater"
    /\ \A c \in Descriptors :
         r = "Less" /\ OrdOf(op, b, c) = "Less" => OrdOf(op, a, c) = "Less"

\* C30: descriptors are totally ordered by alignment descending, then type id
\* ascending, and compare Equal exactly when they are equal (same id)
C30_AlignThenId ==
    [][ last'.op \in {"TypeMeta::cmp", "CmpMeta::cmp"}
          => AlignThenId(last'.op, last'.cmp[1], last'.cmp[2], last'.ret, last'.val = 1) ]_vars

\* the location the recorded Archetype call was made with or returned
CallLoc == last.cmp[1]

\* slot k (0-based) of a chunk: its id and its component cells
SlotOf(chunk, k) ==
    [ id |-> chunk.ents[k + 1], data |-> [t \in DOMAIN chunk.data |-> chunk.data[t][k + 1]] ]

\* C31: Archetype::remove on the last occupied slot of a chunk returns None
\* and moves nothing; on any other occupied slot it copies the id and every
\* component of slot len - 1 into the slot and returns that id; the chunk's
\* len decreases by exactly one either way, and no other slot changes
C31_SwapRemove ==
    [][ (calls' = calls + 1 /\ last'.op = "Archetype::remove")
        => LET loc == CallLoc'
               old == arch[loc.archetype + 1].chunks[loc.chunk + 1]
               new == arch'[loc.archetype + 1].chunks[loc.chunk + 1]
           IN  /\ new.len = old.len - 1
               /\ IF loc.index = old.len - 1
                  THEN /\ last'.ret = "none"
                       /\ \A k \in 0..(new.len - 1) : SlotOf(new, k) = SlotOf(old, k)
                  ELSE /\ last'.ret = "some"
                       /\ last'.ent = old.ents[old.len]
                       /\ SlotOf(new, loc.index) = SlotOf(old, old.len - 1)
                       /\ \A k \in (0..(new.len - 1)) \ {loc.index} :
                            SlotOf(new, k) = SlotOf(old, k) ]_vars

\* slot 0 of a chunk of three was removed: the id and the two components of
\* slot 2, which differ from those slot 1 holds, are now in slot 0
C31_LastMovedIn ==
    /\ last.op = "Archetype::remove"
    /\ last.ret = "some"
    /\ CallLoc.index = 0
    /\ ChunkAt(CallLoc).len = 2
    /\ ChunkAt(CallLoc).ents[1] = last.ent
    /\ SlotOf(ChunkAt(CallLoc), 0).data # SlotOf(ChunkAt(CallLoc), 1).data

\* C32: Archetype::insert returns a location whose archetype is the index of
\* the archetype, whose chunk had a vacant slot before the call (an existing
\* chunk with len below the capacity, or a new chunk of a capacity above 0)
\* and whose slot is that chunk's len before the call; the id is stored at
\* that slot, that chunk's len grows by one and every other chunk and every
\* other slot is unchanged
C32_InsertAtLen ==
    [][ (calls' = calls + 1 /\ last'.op = "Archetype::insert")
        => /\ last'.ret = "some"
           /\ LET loc == CallLoc'
                  a   == arch[last'.ty + 1]
                  a2  == arch'[last'.ty + 1]
                  fresh == loc.chunk = Len(a.chunks)
                  len == IF fresh THEN 0 ELSE a.chunks[loc.chunk + 1].len
                  new == a2.chunks[loc.chunk + 1]
              IN  /\ loc.archetype = last'.ty
                  /\ a2.meta.id = loc.archetype
                  /\ loc.chunk < Len(a2.chunks)
                  /\ len < a.meta.max
                  /\ loc.index = len
                  /\ new.len = len + 1
                  /\ new.ents[loc.index + 1] = last'.ent
                  /\ \A k \in 0..(len - 1) :
                       SlotOf(new, k) = SlotOf(a.chunks[loc.chunk + 1], k)
                  /\ \A c \in (1..Len(a.chunks)) \ {loc.chunk + 1} : a2.chunks[c] = a.chunks[c]
                  /\ Len(a2.chunks) = IF fresh THEN Len(a.chunks) + 1 ELSE Len(a.chunks)
                  /\ \A b \in (1..Len(arch)) \ {last'.ty + 1} : arch'[b] = arch[b] ]_vars

\* the cell of column t in the slot directory[e] names
CellOf(e, t) == ChunkAt(Loc(e)).data[t][Loc(e).index + 1]

\* C33: every entity that has a directory entry has every column of its slot
\* written: no cell of the slot is memory that no component was written to
C33_ColumnsWritten ==
    \A e \in Live : \A t \in TypesOf(e) :
       /\ Loc(e).index < Len(ChunkAt(Loc(e)).data[t])
       /\ CellOf(e, t).id # 0

\* C34: the writes of spawn, and of add into the slot of the target
\* archetype, are initializing writes: no destructor is called on memory
\* that no component was written to
C34_InitializingWrite ==
    \A i \in DOMAIN drops : i.id = 0 => drops[i] = 0

\* the positions (0-based) of the tuple cmp that are stored in the slot of
\* e: the cell of the element's type holds the element's value, as the
\* instance made from that element when made instances existed before
Written(e, cmp, made) ==
    { n \in 0..(Len(cmp) - 1) :
        CellOf(e, cmp[n + 1].ty) = Cell(cmp[n + 1].val, NewId(made, n)) }

\* C35: for every arity from 0 to 26 ComponentSet::insert writes every
\* element of the tuple into the column of its type: after spawn(cmp) the
\* positions written are exactly 0 .. arity - 1
C35_EveryFieldWritten ==
    [][ \A e \in Ents, cmp \in ArityTuples, made \in 0..(2 * MaxArity) :
          (Called("spawn") /\ last'.ent = e /\ last'.cmp = cmp /\ made = Made)
          => Written(e, cmp, made)' = 0..(Len(cmp) - 1) ]_vars

\* the key of the bucket of entity e: `e.id() - e.id() % SIZE`
BucketOf(e) == e - (e % SIZE)

\* the number of slots of a bucket that are not NULL
Filled(chunk) == Cardinality({ i \in 0..(SIZE - 1) : chunk.map[i] # NULL })

\* C36: after any sequence of insert and remove each bucket's counter is the
\* number of its non-NULL slots and is above 0 (a bucket whose last entry is
\* removed is removed), and an insert for an entity that is present leaves
\* the counter as it was
C36_CounterIsOccupancy ==
    [][ /\ \A k \in DOMAIN entities' :
             entities'[k].len = Filled(entities'[k]) /\ entities'[k].len > 0
        /\ \A e \in MapEnts :
             (Called("map_insert") /\ last'.ent = e /\ EntityMap_contains(entities, e))
               => /\ BucketOf(e) \in DOMAIN entities'
                  /\ entities'[BucketOf(e)].len = entities[BucketOf(e)].len ]_vars

\* C37: insert(e, L) and remove(e) change the answer of get only for e: for
\* every other entity, of the same bucket or of another, get is as before,
\* and remove of an entity that is absent changes no answer of get
C37_OnlyThatEntity ==
    [][ \A e \in MapEnts :
          /\ ((Called("map_insert") \/ Called("map_remove")) /\ last'.ent = e)
             => \A o \in MapEnts \ {e} :
                  EntityMap_get(entities', o) = EntityMap_get(entities, o)
          /\ (Called("map_remove") /\ last'.ent = e /\ ~EntityMap_contains(entities, e))
             => \A o \in MapEnts :
                  EntityMap_get(entities', o) = EntityMap_get(entities, o) ]_vars

\* entity 0 was removed while entity 1 of its bucket and entity 16 of another
\* bucket are present with different locations, and the bucket of 0 remains
C37_NeighboursKept ==
    /\ last.op = "map_remove"
    /\ last.ent = 0
    /\ ~EntityMap_contains(entities, 0)
    /\ EntityMap_contains(entities, 1)
    /\ EntityMap_contains(entities, SIZE)
    /\ EntityMap_get(entities, 1) # EntityMap_get(entities, SIZE)
    /\ entities[0].len = 1

\* the locations stored in the directory
Stored ==
    UNION { { entities[k].map[i] : i \in 0..(SIZE - 1) } \ {NULL} : k \in DOMAIN entities }

\* C38: no location Archetype::insert returns, and so no location stored in
\* the directory for a live entity, equals EntityLocation::NULL: the entity
\* spawn returns, or add has moved, is in the Scene, and every stored
\* location names an archetype of the registry, whose indices stay below the
\* archetype field of NULL
C38_NeverNull ==
    [][ /\ \A e \in Ents :
             (last'.ent = e /\ (Called("spawn") \/ (Called("add") /\ last'.ret = "true")))
               => Scene_contains(e)'
        /\ \A loc \in Stored' : loc.archetype < Len(arch')
        /\ Len(arch') < NULL.archetype ]_vars

\* the first entity of the Scene is stored in slot 0 of chunk 0 of archetype
\* 0 and is in the Scene
C38_FirstSlot ==
    /\ last.op = "spawn"
    /\ Scene_contains(last.ent)
    /\ Loc(last.ent) = EntityLocation_new(0, 0, 0)
    /\ Stored = { EntityLocation_new(0, 0, 0) }

\* the len of chunk c of archetype a (0-based) in a registry, 0 for a chunk
\* that does not exist
LenIn(ar, a, c) ==
    IF a < Len(ar) /\ c < Len(ar[a + 1].chunks) THEN ar[a + 1].chunks[c + 1].len ELSE 0

\* the component instances of e's slot that a tuple does not overwrite
CarriedOver(e, cmp) ==
    { Instance(t, CellOf(e, t)) : t \in TypesOf(e) \ TupleTypes(cmp) }

\* C39: add(e, tuple) with at least one type that is not on e moves e to
\* another archetype: it returns true, directory[e].archetype changes, the
\* len of e's old chunk drops by one, the len of exactly one chunk of the
\* target archetype rises by one, the live entities are the same, and the
\* components e carries over are in the new slot with no destructor call
C39_MigratingAdd ==
    [][ \A e \in Ents, cmp \in Tuples :
          ( /\ Called("add") /\ last'.ent = e /\ last'.cmp = cmp
            /\ Scene_contains(e)
            /\ TupleTypes(cmp) \ TypesOf(e) # {} )
          => /\ last'.ret = "true"
             /\ Loc(e)'.archetype # Loc(e).archetype
             /\ LenIn(arch', Loc(e).archetype, Loc(e).chunk)
                  = LenIn(arch, Loc(e).archetype, Loc(e).chunk) - 1
             /\ LET ta == Loc(e)'.archetype
                IN  Cardinality({ c \in 0..MaxEnt : LenIn(arch', ta, c) = LenIn(arch, ta, c) + 1 }) = 1
                    /\ Cardinality({ c \in 0..MaxEnt : LenIn(arch', ta, c) # LenIn(arch, ta, c) }) = 1
             /\ Live' = Live
             /\ \A i \in CarriedOver(e, cmp) :
                  /\ DropCount(i)' = DropCount(i)
                  /\ i \in ComponentsOf(e)' ]_vars

====
